---- MODULE Spec2Model ----
(***************************************************************************)
(* Model of the VR (meal benefit) consolidation engine of vr_automation:   *)
(* DataLoader, DataProcessor, ExclusionManager, CalculationEngine and the  *)
(* VRAutomation facade of src/src/config.py.                               *)
(*                                                                         *)
(* Representation choices                                                  *)
(*  - text (ids, job titles, unions, states) is a sequence of one-letter   *)
(*    strings, so that strip / upper / substring tests are computed;       *)
(*  - a timestamp is a record [year, month, day]; NaT and None are the     *)
(*    pandas missing timestamp and the Python None;                        *)
(*  - money is an exact count of cents; the float products of the code are *)
(*    modelled as exact rationals and rounded by Round2;                   *)
(*  - a table is a sequence of rows, Absent when the workbook is missing.  *)
(***************************************************************************)
EXTENDS Integers, Sequences, FiniteSets, TLC

(***************************************************************************)
(* Values of the workbooks' cells                                          *)
(***************************************************************************)
\* a pandas Timestamp, the missing timestamp NaT, and Python's None
Timestamp(y, m, d) == [kind |-> "ts", year |-> y, month |-> m, day |-> d]
NaT == [kind |-> "NaT", year |-> 0, month |-> 0, day |-> 0]
NoDate == [kind |-> "None", year |-> 0, month |-> 0, day |-> 0]
\* a cell that to_datetime(errors='coerce') cannot parse
BadDate == [kind |-> "bad", year |-> 0, month |-> 0, day |-> 0]

\* a numeric cell, an empty cell (NaN) and a cell holding other text
Num(n) == [kind |-> "num", v |-> n]
NaNCell == [kind |-> "nan", v |-> 0]
TextCell == [kind |-> "text", v |-> 0]

\* pd.notna
NotNa(x) == x.kind \in {"ts", "num", "text", "bad"}

\* a workbook that was read, and one that is missing from the folder
Table(rows) == [present |-> TRUE, rows |-> rows]
Absent == [present |-> FALSE, rows |-> <<>>]

(***************************************************************************)
(* Text                                                                    *)
(***************************************************************************)
LowerLetters == <<"a","b","c","d","e","f","g","h","i","j","k","l","m",
                  "n","o","p","q","r","s","t","u","v","w","x","y","z">>
UpperLetters == <<"A","B","C","D","E","F","G","H","I","J","K","L","M",
                  "N","O","P","Q","R","S","T","U","V","W","X","Y","Z">>

UpperChar(c) ==
    IF \E i \in 1..Len(LowerLetters) : LowerLetters[i] = c
    THEN UpperLetters[CHOOSE i \in 1..Len(LowerLetters) : LowerLetters[i] = c]
    ELSE c

\* str.upper()
StrUpper(s) == [i \in 1..Len(s) |-> UpperChar(s[i])]

\* str.strip(): drops the leading and the trailing blanks
StrStrip(s) ==
    LET nonblank == {i \in 1..Len(s) : s[i] # " "}
    IN IF nonblank = {} THEN <<>>
       ELSE LET lo == CHOOSE i \in nonblank : \A j \in nonblank : i <= j
                hi == CHOOSE i \in nonblank : \A j \in nonblank : j <= i
            IN SubSeq(s, lo, hi)

\* python "sub in s"
StrContains(s, sub) ==
    \E i \in 0..(Len(s) - Len(sub)) :
        \A j \in 1..Len(sub) : s[i + j] = sub[j]

\* Series.str.contains(sub, case=False)
StrContainsNoCase(s, sub) == StrContains(StrUpper(s), StrUpper(sub))

\* .astype(str).str.strip().str.upper()
NormalizeText(s) == StrUpper(StrStrip(s))

(***************************************************************************)
(* Small arithmetic helpers                                                *)
(***************************************************************************)
Max(a, b) == IF a >= b THEN a ELSE b

Abs(a) == IF a >= 0 THEN a ELSE 0 - a

\* int(x) of the quotient n/d (d > 0): truncation toward zero
IntTrunc(n, d) == IF n >= 0 THEN n \div d ELSE 0 - ((0 - n) \div d)

\* round(n/d) to the nearest integer, ties to even (d > 0, n >= 0)
RoundHalfEven(n, d) ==
    LET q == n \div d
        r == n % d
    IN IF 2 * r < d THEN q
       ELSE IF 2 * r > d THEN q + 1
       ELSE IF q % 2 = 0 THEN q ELSE q + 1

RECURSIVE SumSeq(_)
SumSeq(s) == IF s = <<>> THEN 0 ELSE Head(s) + SumSeq(Tail(s))

SeqRange(s) == {s[i] : i \in 1..Len(s)}

RECURSIVE SelectRows(_, _)
\* boolean-mask row selection, order kept: keep[i] tells whether row i stays
SelectRows(rows, keep) ==
    IF rows = <<>> THEN <<>>
    ELSE (IF Head(keep) THEN <<Head(rows)>> ELSE <<>>)
         \o SelectRows(Tail(rows), Tail(keep))

(***************************************************************************)
(* Program constants                                                       *)
(***************************************************************************)
\* business_days_mapping.get(union, 22) and the NaN default of the builder
DefaultBaseDays == 22
\* get_daily_value's "return 35.0", in cents
DefaultDailyValue == 3500
\* the normalized month of calculate_days_worked
MonthDays == 30
\* "Data_Demissao.dt.day <= 15"
DismissalCutoffDay == 15
\* total_value * 0.8 and total_value * 0.2, in percent
CompanyPercent == 80
ProfessionalPercent == 20
\* DataValidator._validate_cost_split's tolerance 0.01, in cents
SplitToleranceCents == 1
\* 'DIRETOR'
DirectorKeyword == <<"D","I","R","E","T","O","R">>

SourceNames == {"admissao", "afastamentos", "aprendiz", "ativos", "dias_uteis",
                "sindicato_valor", "desligados", "estagio", "exterior", "ferias"}

(***************************************************************************)
(* DataProcessor                                                           *)
(***************************************************************************)
\* MATRICULA <- astype(str).str.strip().str.upper(), row by row
NormalizeMatricula(t) ==
    IF ~t.present THEN t
    ELSE Table([i \in 1..Len(t.rows) |->
                 [t.rows[i] EXCEPT !.MATRICULA = NormalizeText(@)]])

\* pd.to_datetime(errors='coerce'): what cannot be parsed becomes NaT
CoerceDate(d) == IF d.kind = "ts" THEN d ELSE NaT

ProcessDateColumn(t, col) ==
    IF ~t.present THEN t
    ELSE Table([i \in 1..Len(t.rows) |->
                 [t.rows[i] EXCEPT ![col] = CoerceDate(@)]])

StandardizeUnion(t) ==
    IF ~t.present THEN t
    ELSE Table([i \in 1..Len(t.rows) |->
                 [t.rows[i] EXCEPT !.SINDICATO = NormalizeText(@)]])

MatriculaFiles == {"admissao", "afastamentos", "aprendiz", "ativos",
                   "desligados", "estagio", "ferias", "exterior"}

clean_and_standardize(data) ==
    LET ids == [n \in SourceNames |->
                  IF n \in MatriculaFiles THEN NormalizeMatricula(data[n])
                  ELSE data[n]]
        dates == [ids EXCEPT
                    !["admissao"] = ProcessDateColumn(@, "Admissao"),
                    !["desligados"] = ProcessDateColumn(@, "DATA_DEMISSAO")]
    IN [dates EXCEPT !["ativos"] = StandardizeUnion(@)]

(***************************************************************************)
(* ExclusionManager                                                        *)
(***************************************************************************)
Matriculas(t) == {t.rows[i].MATRICULA : i \in 1..Len(t.rows)}

\* _get_directors with str.contains left case-sensitive
GetDirectorsCaseSensitive(data) ==
    IF ~data["ativos"].present THEN {}
    ELSE {r.MATRICULA : r \in
            {x \in SeqRange(data["ativos"].rows) :
                StrContains(x.CARGO, DirectorKeyword)}}

get_directors(data) ==
    IF ~data["ativos"].present THEN {}
    ELSE {r.MATRICULA : r \in
            {x \in SeqRange(data["ativos"].rows) :
                StrContainsNoCase(x.CARGO, DirectorKeyword)}}

get_interns(data) ==
    IF ~data["estagio"].present THEN {} ELSE Matriculas(data["estagio"])

get_apprentices(data) ==
    IF ~data["aprendiz"].present THEN {} ELSE Matriculas(data["aprendiz"])

get_away(data) ==
    IF ~data["afastamentos"].present THEN {} ELSE Matriculas(data["afastamentos"])

get_exterior(data) ==
    IF ~data["exterior"].present THEN {} ELSE Matriculas(data["exterior"])

\* exclusion_details after identify_exclusions
ExclusionDetails(data) ==
    [directors |-> get_directors(data),
     interns |-> get_interns(data),
     apprentices |-> get_apprentices(data),
     away |-> get_away(data),
     exterior |-> get_exterior(data)]

\* identify_exclusions with the overseas rule left out of exclusion_rules
IdentifyExclusionsWithoutExterior(data) ==
    LET d == ExclusionDetails(data)
    IN d.directors \cup d.interns \cup d.apprentices \cup d.away

\* the set identify_exclusions returns
identify_exclusions(data) ==
    LET d == ExclusionDetails(data)
    IN d.directors \cup d.interns \cup d.apprentices \cup d.away \cup d.exterior

(***************************************************************************)
(* Python dicts: a sequence of [k, v] pairs in insertion order             *)
(***************************************************************************)
DictHas(d, k) == \E i \in 1..Len(d) : d[i].k = k

\* d[k] = v as "d[k] = d.get(k, 0) + v": a known key adds to its value
DictSetAccumulate(d, k, v) ==
    IF \E i \in 1..Len(d) : d[i].k = k
    THEN [i \in 1..Len(d) |->
            IF d[i].k = k THEN [k |-> k, v |-> d[i].v + v] ELSE d[i]]
    ELSE Append(d, [k |-> k, v |-> v])

\* d[k] = v as "del d[k]; d[k] = v": a known key moves to the end
DictSetReinsert(d, k, v) ==
    Append(SelectSeq(d, LAMBDA e : e.k # k), [k |-> k, v |-> v])

\* d[k] = v: a new key is appended, a known key keeps its position
DictSet(d, k, v) ==
    IF DictHas(d, k)
    THEN [i \in 1..Len(d) |-> IF d[i].k = k THEN [k |-> k, v |-> v] ELSE d[i]]
    ELSE Append(d, [k |-> k, v |-> v])

\* d.get(k, default)
DictGet(d, k, default) ==
    IF DictHas(d, k)
    THEN d[CHOOSE i \in 1..Len(d) : d[i].k = k].v
    ELSE default

(***************************************************************************)
(* CalculationEngine                                                       *)
(***************************************************************************)
RECURSIVE BusinessDaysRows(_, _)
\* the loop of _build_business_days_mapping over the rows still to read:
\* int() of a text cell raises ValueError and leaves the entries made so far
BusinessDaysRows(mapping, rows) ==
    IF rows = <<>> THEN [map |-> mapping, raised |-> FALSE]
    ELSE LET row == Head(rows)
             union == NormalizeText(row.SINDICATO)
         IN IF row.DIAS.kind = "text"
            THEN [map |-> mapping, raised |-> TRUE]
            ELSE BusinessDaysRows(
                    DictSet(mapping, union,
                            IF NotNa(row.DIAS) THEN row.DIAS.v ELSE DefaultBaseDays),
                    Tail(rows))

build_business_days_mapping(mapping, data) ==
    IF ~data["dias_uteis"].present THEN [map |-> mapping, raised |-> FALSE]
    ELSE BusinessDaysRows(mapping, data["dias_uteis"].rows)

RECURSIVE DailyValuesRows(_, _)
\* the loop of _build_daily_values_mapping: a value float() rejects is skipped
DailyValuesRows(mapping, rows) ==
    IF rows = <<>> THEN mapping
    ELSE LET row == Head(rows)
             state == NormalizeText(row.ESTADO)
         IN DailyValuesRows(
                IF row.VALOR.kind = "num" THEN DictSet(mapping, state, row.VALOR.v)
                ELSE mapping,
                Tail(rows))

build_daily_values_mapping(mapping, data) ==
    IF ~data["sindicato_valor"].present THEN mapping
    ELSE DailyValuesRows(mapping, data["sindicato_valor"].rows)

\* "date and date.month == competence_month and date.year == competence_year":
\* None is falsy, NaT is truthy but its month compares unequal to any month
InCompetence(date, competence_month, competence_year) ==
    /\ date.kind = "ts"
    /\ date.month = competence_month
    /\ date.year = competence_year

\* int(base_days * (n / 30)).  The code multiplies by the float n / 30; for
\* 0 <= base_days <= 74 and 0 <= n <= 31 the truncated float product equals the
\* truncated exact quotient (the first difference is base_days = 75, n = 22).
ProportionalDays(base_days, n) == IntTrunc(base_days * n, MonthDays)

\* calculate_days_worked returning days_worked without "max(0, ...)"
CalculateDaysWorkedUnclamped(base_days, vacation_days, admission_date, dismissal_date, competence_month, competence_year) ==
    LET start == base_days - vacation_days
        admitted ==
            IF InCompetence(admission_date, competence_month, competence_year)
            THEN ProportionalDays(base_days, MonthDays - admission_date.day + 1)
            ELSE start
    IN IF InCompetence(dismissal_date, competence_month, competence_year)
       THEN ProportionalDays(base_days, dismissal_date.day)
       ELSE admitted

calculate_days_worked(base_days, vacation_days, admission_date, dismissal_date, competence_month, competence_year) ==
    LET start == base_days - vacation_days
        admitted ==
            IF InCompetence(admission_date, competence_month, competence_year)
            THEN ProportionalDays(base_days, MonthDays - admission_date.day + 1)
            ELSE start
        dismissed ==
            IF InCompetence(dismissal_date, competence_month, competence_year)
            THEN ProportionalDays(base_days, dismissal_date.day)
            ELSE admitted
    IN Max(0, dismissed)

\* get_daily_value falling back to 0.00 instead of 35.00
GetDailyValueZeroDefault(mapping, union_name) ==
    LET union_upper == StrUpper(union_name)
        hits == {i \in 1..Len(mapping) : StrContains(union_upper, mapping[i].k)}
    IN IF hits = {} THEN 0
       ELSE mapping[CHOOSE i \in hits : \A j \in hits : i <= j].v

\* the first state, in the dict's order, that is a substring of the union
get_daily_value(mapping, union_name) ==
    LET union_upper == StrUpper(union_name)
        hits == {i \in 1..Len(mapping) : StrContains(union_upper, mapping[i].k)}
    IN IF hits = {} THEN DefaultDailyValue
       ELSE mapping[CHOOSE i \in hits : \A j \in hits : i <= j].v

(***************************************************************************)
(* VRAutomation: the steps of create_consolidated_base                     *)
(***************************************************************************)
RowsOf(t, matricula) == SelectSeq(t.rows, LAMBDA r : r.MATRICULA = matricula)

RECURSIVE MergeAdmissions(_, _)
\* base_df.merge(admissions, on='MATRICULA', how='left'): one output row per
\* matching admissions row, in the roster's order; NaT when there is none
MergeAdmissions(base, admissions) ==
    IF base = <<>> THEN <<>>
    ELSE LET b == Head(base)
             m == RowsOf(admissions, b.MATRICULA)
             joined ==
                IF m = <<>> THEN <<[b EXCEPT !.Admissao = NaT]>>
                ELSE [i \in 1..Len(m) |-> [b EXCEPT !.Admissao = m[i].Admissao]]
         IN joined \o MergeAdmissions(Tail(base), admissions)

\* the vacation lookup keeping the first row of an id instead of the last
VacationDaysFirstRow(ferias, matricula) ==
    LET m == RowsOf(ferias, matricula)
    IN IF m = <<>> THEN 0
       ELSE IF NotNa(m[1].DIAS) THEN m[1].DIAS.v ELSE 0

\* dict(zip(MATRICULA, DIAS.fillna(0))): the last row of an id wins;
\* .map(...).fillna(0): an id without a row gets 0
VacationDays(ferias, matricula) ==
    LET m == RowsOf(ferias, matricula)
    IN IF m = <<>> THEN 0
       ELSE IF NotNa(m[Len(m)].DIAS) THEN m[Len(m)].DIAS.v ELSE 0

\* the roster restricted to its identifying columns, with the columns that
\* _enrich_base_data adds still at their defaults (no 'Admissão' column: None)
BaseRows(data) ==
    [i \in 1..Len(data["ativos"].rows) |->
        [MATRICULA |-> data["ativos"].rows[i].MATRICULA,
         CARGO |-> data["ativos"].rows[i].CARGO,
         SINDICATO |-> data["ativos"].rows[i].SINDICATO,
         Admissao |-> NoDate,
         Dias_Ferias |-> 0,
         Data_Demissao |-> NoDate,
         Comunicado |-> "None"]]

\* disconnected_info.loc[matricula, column] is a Series, not a cell, when the
\* id has several rows in DESLIGADOS; the Series is stored in the cell
SeriesCell == [kind |-> "series", year |-> 0, month |-> 0, day |-> 0]

enrich_base_data(base, data) ==
    LET merged == IF data["admissao"].present
                  THEN MergeAdmissions(base, data["admissao"])
                  ELSE base
        vacation == [i \in 1..Len(merged) |->
                       [merged[i] EXCEPT !.Dias_Ferias =
                           IF data["ferias"].present
                           THEN VacationDays(data["ferias"], merged[i].MATRICULA)
                           ELSE 0]]
    IN [i \in 1..Len(vacation) |->
          LET m == IF data["desligados"].present
                   THEN RowsOf(data["desligados"], vacation[i].MATRICULA)
                   ELSE <<>>
          IN IF m = <<>> THEN vacation[i]
             ELSE IF Len(m) > 1
             THEN [vacation[i] EXCEPT !.Data_Demissao = SeriesCell,
                                      !.Comunicado = "Series"]
             ELSE [vacation[i] EXCEPT !.Data_Demissao = m[1].DATA_DEMISSAO,
                                      !.Comunicado = m[1].COMUNICADO]]

\* mask_dismissal with "< 15" written for "<= 15"
DismissalMaskBeforeCutoff(row) ==
    /\ row.Comunicado = "OK"
    /\ row.Data_Demissao.kind = "ts"
    /\ row.Data_Demissao.day < DismissalCutoffDay

\* mask_dismissal of _apply_eligibility_rules
DismissalMask(row) ==
    /\ row.Comunicado = "OK"
    /\ row.Data_Demissao.kind = "ts"
    /\ row.Data_Demissao.day <= DismissalCutoffDay

\* comparing a cell that holds a Series with 'OK' has no truth value
MaskIsAmbiguous(base) == \E i \in 1..Len(base) : base[i].Comunicado = "Series"

apply_eligibility_rules(base) ==
    SelectRows(base, [i \in 1..Len(base) |-> ~DismissalMask(base[i])])

\* base_final[~base_final['MATRICULA'].isin(exclusions)]
RemoveExcluded(base, exclusions) ==
    SelectRows(base, [i \in 1..Len(base) |-> base[i].MATRICULA \notin exclusions])

\* round(x, 2) of the amount num/den cents
Round2(num, den) == RoundHalfEven(num, den)

\* the employer share rounded with round(x) instead of round(x, 2)
CompanyCostWholeUnits(total_value) ==
    100 * RoundHalfEven(total_value * CompanyPercent, 100 * 100)

\* the employee share cut to the cent instead of rounded
ProfessionalDiscountTruncated(total_value) ==
    (total_value * ProfessionalPercent) \div 100

\* round(total_value * 0.8, 2) and round(total_value * 0.2, 2), total in cents
CompanyCost(total_value) == Round2(total_value * CompanyPercent, 100)

ProfessionalDiscount(total_value) == Round2(total_value * ProfessionalPercent, 100)

\* _generate_observations: the facts the note lists
generate_observations(vacation_days, admission_date, dismissal_date) ==
    [ferias |-> IF vacation_days > 0 THEN vacation_days ELSE 0,
     admissao |-> IF admission_date.kind = "ts" THEN admission_date ELSE NoDate,
     demissao |-> IF dismissal_date.kind = "ts" THEN dismissal_date ELSE NoDate]

\* one iteration of the loop of _generate_final_records
FinalRecord(employee, business_days, daily_values, competence_month, competence_year) ==
    LET union == employee.SINDICATO
        base_days == DictGet(business_days, union, DefaultBaseDays)
        days_worked == calculate_days_worked(base_days, employee.Dias_Ferias,
                           employee.Admissao, employee.Data_Demissao,
                           competence_month, competence_year)
        daily_value == get_daily_value(daily_values, union)
        total_value == days_worked * daily_value
    IN [Matricula |-> employee.MATRICULA,
        Admissao |-> IF employee.Admissao.kind = "ts" THEN employee.Admissao ELSE NoDate,
        Sindicato |-> union,
        Competencia |-> Timestamp(competence_year, competence_month, 1),
        Dias |-> days_worked,
        ValorDiario |-> daily_value,
        TOTAL |-> Round2(total_value, 1),
        CustoEmpresa |-> CompanyCost(total_value),
        DescontoProfissional |-> ProfessionalDiscount(total_value),
        OBS |-> generate_observations(employee.Dias_Ferias, employee.Admissao,
                                      employee.Data_Demissao)]

generate_final_records(base, business_days, daily_values, competence_month, competence_year) ==
    [i \in 1..Len(base) |->
        FinalRecord(base[i], business_days, daily_values,
                    competence_month, competence_year)]

\* a date cell that was never coerced is text: it has no .month
DateIsText(base) ==
    \E i \in 1..Len(base) :
        base[i].Admissao.kind = "bad" \/ base[i].Data_Demissao.kind = "bad"

\* base_df['Data_Demissao'].dt: the column was created with "= None", so its
\* dtype is object.  A pandas that does not infer raises AttributeError for
\* every object column; one that infers accepts the column only when a cell
\* holds a Timestamp or NaT and every other cell is None
DtAccessorRaises(base, infers) ==
    \/ ~infers
    \/ \A i \in 1..Len(base) : base[i].Data_Demissao.kind \notin {"ts", "NaT"}
    \/ \E i \in 1..Len(base) : base[i].Data_Demissao.kind \notin {"ts", "NaT", "None"}

Column(rows, name) == [i \in 1..Len(rows) |-> rows[i][name]]

\* ProcessingStats of create_consolidated_base (processing_time left out)
MakeStats(rows, excluded_count) ==
    [total_collaborators |-> Len(rows),
     total_days |-> SumSeq(Column(rows, "Dias")),
     total_value |-> SumSeq(Column(rows, "TOTAL")),
     company_cost |-> SumSeq(Column(rows, "CustoEmpresa")),
     professional_discount |-> SumSeq(Column(rows, "DescontoProfissional")),
     excluded_count |-> excluded_count]

NoStats == [total_collaborators |-> 0, total_days |-> 0, total_value |-> 0,
            company_cost |-> 0, professional_discount |-> 0, excluded_count |-> 0]

(***************************************************************************)
(* DataValidator                                                           *)
(***************************************************************************)
\* a text cell read as float NaN, and the empty text
MissingText == <<"NaN">>

EmptyText == <<>>

\* Series.isna(): NaN, None and NaT, never the empty text
IsNaText(cell) == cell = MissingText

IsNaDate(cell) == cell.kind \in {"None", "NaT", "nan"}

\* 3000.00, in cents, and the 30 days of _validate_extreme_values
ExtremeTotal == 300000

ExtremeDays == 30

ValidationResult(level, message, count) ==
    [level |-> level, message |-> message, count |-> count]

\* len(df[mask]), mask the boolean Series of a condition
CountRows(mask) == Cardinality({i \in 1..Len(mask) : mask[i]})

\* one of the six checks: its level when rows are counted, INFO and 0 if none
Finding(level, message, count) ==
    IF count > 0 THEN ValidationResult(level, message, count)
    ELSE ValidationResult("INFO", message, 0)

validate_negative_days(df) ==
    Finding("ERROR", "negative_days", CountRows([i \in 1..Len(df) |-> df[i].Dias < 0]))

validate_value_consistency(df) ==
    Finding("ERROR", "value_consistency",
            CountRows([i \in 1..Len(df) |-> df[i].Dias > 0 /\ df[i].TOTAL <= 0]))

\* the records of the model whose shares miss the total by exactly one cent
\* and whose float sum abs(a + b - t) comes out above the float 0.01:
\* 0.8 + 0.21 - 1.0 is 0.010000000000000009
OneCentAbove == {<<80, 21, 100>>}

\* abs(df['Custo empresa'] + df['Desconto profissional'] - df['TOTAL']) > 0.01
\* in binary floating point: two cents or more always exceed, no difference
\* never does, one cent does when the float sum is rounded above 0.01
ExceedsTolerance(company, professional, total) ==
    LET difference == Abs(company + professional - total)
    IN \/ difference > SplitToleranceCents
       \/ /\ difference = SplitToleranceCents
          /\ <<company, professional, total>> \in OneCentAbove

validate_cost_split(df) ==
    Finding("ERROR", "cost_split",
            CountRows([i \in 1..Len(df) |-> ExceedsTolerance(df[i].CustoEmpresa,
                                        df[i].DescontoProfissional, df[i].TOTAL)]))

\* df['Matricula'].nunique(): NaN is not counted
NUnique(df) ==
    Cardinality({df[i].Matricula : i \in 1..Len(df)} \ {MissingText})

\* the uniqueness check counting the ids that repeat, not the surplus records
ValidateDuplicateIdsCounted(df) ==
    Finding("ERROR", "duplicate_registrations",
            Cardinality({df[i].Matricula : i \in
                            {j \in 1..Len(df) : \E l \in 1..Len(df) :
                                l # j /\ df[l].Matricula = df[j].Matricula}}))

validate_duplicate_registrations(df) ==
    Finding("ERROR", "duplicate_registrations", Len(df) - NUnique(df))

validate_extreme_values(df) ==
    Finding("WARNING", "extreme_values",
            CountRows([i \in 1..Len(df) |-> df[i].TOTAL > ExtremeTotal \/ df[i].Dias > ExtremeDays]))

\* the sum over the three required columns of their isna() counts
validate_required_fields(df) ==
    Finding("WARNING", "required_fields",
            CountRows([i \in 1..Len(df) |-> IsNaText(df[i].Matricula)])
            + CountRows([i \in 1..Len(df) |-> IsNaText(df[i].Sindicato)])
            + CountRows([i \in 1..Len(df) |-> IsNaDate(df[i].Competencia)]))

validate_processed_data(df) ==
    <<validate_negative_days(df),
      validate_value_consistency(df),
      validate_cost_split(df),
      validate_duplicate_registrations(df),
      validate_extreme_values(df),
      validate_required_fields(df)>>

\* validate_data passing every finding, WARNING or ERROR
ValidationPassedAlways(validations) == TRUE

\* "validation_passed = len(errors) == 0" of validate_data
validation_passed(validations) ==
    \A i \in 1..Len(validations) : validations[i].level # "ERROR"

(***************************************************************************)
(* DataFrame.sort_values('Matricula')                                      *)
(***************************************************************************)
Digits == <<"0","1","2","3","4","5","6","7","8","9">>

\* the characters of the ids in code-point order
CodePoints == <<" ">> \o Digits \o UpperLetters \o LowerLetters

CodePoint(c) ==
    IF \E i \in 1..Len(CodePoints) : CodePoints[i] = c
    THEN CHOOSE i \in 1..Len(CodePoints) : CodePoints[i] = c
    ELSE Len(CodePoints) + 1

RECURSIVE TextLeq(_, _)
\* a <= b for two str
TextLeq(a, b) ==
    IF a = <<>> THEN TRUE
    ELSE IF b = <<>> THEN FALSE
    ELSE IF Head(a) = Head(b) THEN TextLeq(Tail(a), Tail(b))
    ELSE CodePoint(Head(a)) < CodePoint(Head(b))

\* the orders sort_values('Matricula') may give the rows: ascending by id,
\* records of one id in any order (the default sort is not stable)
sort_values(rows) ==
    {[i \in 1..Len(rows) |-> rows[p[i]]] :
        p \in {q \in Permutations(1..Len(rows)) :
                 \A i, j \in 1..Len(rows) :
                     i < j => TextLeq(rows[q[i]].Matricula, rows[q[j]].Matricula)}}

(***************************************************************************)
(* VRAutomation.generate_summary_report                                    *)
(***************************************************************************)
\* the keys of groupby('Sindicato do Colaborador'): a missing union is no key
UnionsOf(rows) == {rows[i].Sindicato : i \in 1..Len(rows)} \ {MissingText}

GroupRows(rows, union) ==
    SelectRows(rows, [i \in 1..Len(rows) |-> rows[i].Sindicato = union])

\* (num / den).round(2) in cents: the nearest cent; a quotient ending in half
\* a cent has no exact float, and the float lies on either side of it
RoundChoices(num, den) ==
    IF (2 * num) % den = 0 /\ num % den # 0
    THEN {num \div den, (num \div den) + 1}
    ELSE {RoundHalfEven(num, den)}

\* the row agg() and the mean per employee give a union
SummaryEntries(rows, union) ==
    LET group == GroupRows(rows, union)
        count == CountRows([i \in 1..Len(group) |-> group[i].Matricula # MissingText])
        total == SumSeq(Column(group, "TOTAL"))
    IN {[Sindicato |-> union,
         Qtd_Funcionarios |-> count,
         Total_Dias |-> SumSeq(Column(group, "Dias")),
         Valor_Total |-> total,
         Custo_Empresa |-> SumSeq(Column(group, "CustoEmpresa")),
         Desconto_Funcionario |-> SumSeq(Column(group, "DescontoProfissional")),
         Valor_Medio_Diario |-> daily,
         Valor_Medio_Por_Funcionario |-> each] :
            daily \in RoundChoices(SumSeq(Column(group, "ValorDiario")), Len(group)),
            each \in RoundChoices(total, count)}

\* sort_values('Valor_Total', ascending=True)
SortedByTotalAscending(summary) ==
    \A i, j \in 1..Len(summary) :
        i < j => summary[i].Valor_Total <= summary[j].Valor_Total

\* sort_values('Valor_Total', ascending=False): entries of equal total in any
\* order
SortedByTotal(summary) ==
    \A i, j \in 1..Len(summary) :
        i < j => summary[i].Valor_Total >= summary[j].Valor_Total

\* the frames the summary may be: one entry per union, sorted by total
SummaryFrames(rows) ==
    LET unions == UnionsOf(rows)
        entries == UNION {SummaryEntries(rows, u) : u \in unions}
    IN {summary \in [1..Cardinality(unions) -> entries] :
          /\ \A i, j \in 1..Cardinality(unions) :
                i # j => summary[i].Sindicato # summary[j].Sindicato
          /\ SortedByTotal(summary)}

(***************************************************************************)
(* The input folders the model explores                                    *)
(***************************************************************************)
\* largest working-day count and largest vacation count written in a workbook
MaxBaseDays == 23
MaxVacationDays == 30

Ativo(m, c, s) == [MATRICULA |-> m, CARGO |-> c, SINDICATO |-> s]
Adm(m, d) == [MATRICULA |-> m, Admissao |-> d]
Fer(m, n) == [MATRICULA |-> m, DIAS |-> n]
Desl(m, d, c) == [MATRICULA |-> m, DATA_DEMISSAO |-> d, COMUNICADO |-> c]
Mat(m) == [MATRICULA |-> m]
DiasUteis(s, n) == [SINDICATO |-> s, DIAS |-> n]
Valor(e, v) == [ESTADO |-> e, VALOR |-> v]

\* registration ids: E1 and E2 as normalized, and E1 as typed with a blank and
\* in lower case
E1 == <<"A","1">>
E2 == <<"B","2">>
E1Raw == <<" ","a","1">>

Dev == <<"D","E","V">>
Diretora == <<"D","i","r","e","t","o","r","a">>

\* unions: two that name a state, one that names none and has no day count
UnionSP == <<"U"," ","S","P">>
UnionRJ == <<"u"," ","R","J"," ">>
UnionXX == <<"U","X">>
UnionBoth == <<"U"," ","S","P","/","R","J">>
StateSP == <<"S","P">>
StateRJ == <<"r","j">>

\* the competency period of the run, and dates around it
CompetenceMonth == 5
CompetenceYear == 2025
Days == 1..31
InMonth(d) == Timestamp(CompetenceYear, CompetenceMonth, d)
OtherMonth(d) == Timestamp(CompetenceYear, CompetenceMonth - 1, d)
OtherYear(d) == Timestamp(CompetenceYear - 1, CompetenceMonth, d)

DefaultDias == Table(<<DiasUteis(UnionSP, Num(DefaultBaseDays)),
                       DiasUteis(UnionRJ, Num(MaxBaseDays - 2))>>)
DefaultValor == Table(<<Valor(StateSP, Num(3751)), Valor(StateRJ, Num(3503))>>)
DefaultAtivos == Table(<<Ativo(E1, Dev, UnionSP), Ativo(E2, Dev, UnionRJ)>>)

\* a folder holding the three essential workbooks and nothing else
BaseFolder ==
    [n \in SourceNames |->
        CASE n = "ativos" -> DefaultAtivos
          [] n = "dias_uteis" -> DefaultDias
          [] n = "sindicato_valor" -> DefaultValor
          [] OTHER -> Absent]

AtivosFew == {DefaultAtivos,
              Table(<<Ativo(E1Raw, Dev, UnionXX)>>)}

AtivosAll == AtivosFew \cup
             {Table(<<Ativo(E1, Diretora, UnionSP), Ativo(E2, Dev, UnionRJ)>>),
              Table(<<Ativo(E1, Dev, UnionSP), Ativo(E1, Dev, UnionSP)>>),
              Table(<<>>)}

AdmissaoFew == {Absent,
                Table(<<Adm(E1, InMonth(16))>>),
                Table(<<Adm(E1, OtherMonth(16)), Adm(E2, InMonth(1))>>)}

AdmissaoAll == AdmissaoFew \cup
               {Table(<<Adm(E1Raw, InMonth(d))>>) : d \in Days} \cup
               {Table(<<>>),
                Table(<<Adm(E1, OtherYear(16))>>),
                Table(<<Adm(E1, BadDate)>>),
                Table(<<Adm(E1, InMonth(16)), Adm(E1, OtherMonth(3))>>)}

FeriasAll == {Absent,
              Table(<<Fer(E1, Num(5))>>),
              Table(<<Fer(E1, Num(MaxVacationDays)), Fer(E2, NaNCell)>>),
              Table(<<Fer(E1, Num(5)), Fer(E1Raw, Num(7))>>)}

DesligadosFew == {Absent,
                  Table(<<Desl(E1, InMonth(20), "OK")>>),
                  Table(<<Desl(E1, InMonth(10), "NaN")>>),
                  Table(<<Desl(E2, InMonth(10), "OK")>>)}

DesligadosAll == DesligadosFew \cup
                 {Table(<<Desl(E1, InMonth(d), c)>>) : d \in Days, c \in {"OK", "NaN"}} \cup
                 {Table(<<Desl(E1Raw, d, c)>>) :
                     d \in {OtherMonth(10), OtherMonth(20), OtherYear(10), BadDate},
                     c \in {"OK", "NaN"}} \cup
                 {Table(<<>>),
                  Table(<<Desl(E1, InMonth(20), "OK"), Desl(E1, InMonth(10), "OK")>>),
                  Table(<<Desl(E1, InMonth(10), "OK"), Desl(E2, InMonth(12), "OK")>>)}

ExclusionTables == {Absent, Table(<<Mat(E1Raw)>>), Table(<<Mat(E2)>>)}

DiasAll == {DefaultDias, Absent,
            Table(<<DiasUteis(UnionSP, NaNCell), DiasUteis(UnionRJ, Num(0))>>),
            Table(<<DiasUteis(UnionSP, Num(MaxBaseDays)), DiasUteis(UnionRJ, TextCell)>>)}

ValorAll == {DefaultValor, Absent,
             Table(<<Valor(StateSP, TextCell), Valor(StateRJ, Num(3503))>>),
             Table(<<Valor(StateRJ, Num(1)), Valor(StateSP, Num(3777)),
                     Valor(StateRJ, Num(2999))>>)}

\* admissions in full, against a few dismissals
AdmissionFolders ==
    {[BaseFolder EXCEPT !["ativos"] = a, !["admissao"] = ad,
                        !["ferias"] = f, !["desligados"] = de] :
        a \in AtivosFew, ad \in AdmissaoAll, f \in FeriasAll, de \in DesligadosFew}

\* dismissals in full, against a few admissions
DismissalFolders ==
    {[BaseFolder EXCEPT !["ativos"] = a, !["admissao"] = ad,
                        !["ferias"] = f, !["desligados"] = de] :
        a \in AtivosFew, ad \in AdmissaoFew, f \in FeriasAll, de \in DesligadosAll}

\* dismissals that leave both employees of the default roster in the month
LateDismissals ==
    Table(<<Desl(E1, OtherMonth(20), "NaN"), Desl(E2, InMonth(20), "OK")>>)

\* every combination of the exclusion workbooks
ExclusionFolders ==
    {[BaseFolder EXCEPT !["ativos"] = a, !["estagio"] = es, !["aprendiz"] = ap,
                        !["afastamentos"] = af, !["exterior"] = ex,
                        !["desligados"] = de] :
        a \in AtivosAll, es \in ExclusionTables, ap \in ExclusionTables,
        af \in ExclusionTables, ex \in ExclusionTables,
        de \in {Absent, LateDismissals}}

\* dismissals dated outside the competency period
EarlierDismissals ==
    Table(<<Desl(E1, OtherMonth(20), "NaN"), Desl(E2, OtherYear(10), "NaN")>>)

\* two employees of a union whose name holds two state names
BothStatesAtivos ==
    Table(<<Ativo(E1, Dev, UnionBoth), Ativo(E2, Dev, UnionBoth)>>)

\* the rate workbooks and the roster
RateFolders ==
    {[BaseFolder EXCEPT !["ativos"] = a, !["dias_uteis"] = du,
                        !["sindicato_valor"] = sv, !["ferias"] = f,
                        !["desligados"] = EarlierDismissals] :
        a \in AtivosAll \cup {Absent, BothStatesAtivos}, du \in DiasAll,
        sv \in ValorAll, f \in FeriasAll}

\* a union that works every day of the 30-day month
FullMonthDias == Table(<<DiasUteis(UnionSP, Num(MonthDays)),
                         DiasUteis(UnionRJ, Num(MaxBaseDays))>>)

\* dismissals on every day of the month, in a union working the full month
FullMonthFolders ==
    {[BaseFolder EXCEPT !["dias_uteis"] = FullMonthDias,
                        !["desligados"] = Table(<<Desl(E1, InMonth(d), c)>>)] :
        d \in Days, c \in {"OK", "NaN"}}

\* a rate above 3000.00 a month for one state and a rate of 0.00 for the other
HighValor == Table(<<Valor(StateSP, Num(20000)), Valor(StateRJ, Num(0))>>)

RepeatedAdmissions == Table(<<Adm(E1, InMonth(16)), Adm(E1, OtherMonth(3))>>)

\* the folders run_complete_process is given
RunFolders ==
    {[BaseFolder EXCEPT !["ativos"] = a, !["admissao"] = ad,
                        !["desligados"] = de, !["sindicato_valor"] = sv] :
        a \in AtivosAll \cup {Absent}, ad \in {Absent, RepeatedAdmissions},
        de \in DesligadosFew \cup {LateDismissals},
        sv \in {DefaultValor, HighValor}}

E3 == <<"C","3">>
E4 == <<"d","4">>

\* three employees of one union and one of another
FourAtivos ==
    Table(<<Ativo(E1, Dev, UnionSP), Ativo(E2, Dev, UnionSP),
            Ativo(E3, Dev, UnionSP), Ativo(E4, Dev, UnionRJ)>>)

\* both employees of the default roster dismissed with notice by day 15
BothDismissed ==
    Table(<<Desl(E1, InMonth(10), "OK"), Desl(E2, InMonth(12), "OK")>>)

\* the folders the reports are drawn from
ReportFolders ==
    {[BaseFolder EXCEPT !["ativos"] = a, !["ferias"] = f,
                        !["desligados"] = de, !["sindicato_valor"] = sv,
                        !["estagio"] = es] :
        a \in {DefaultAtivos, BothStatesAtivos, FourAtivos},
        f \in {Absent, Table(<<Fer(E1, Num(5))>>)},
        de \in {Absent, LateDismissals, BothDismissed},
        sv \in {DefaultValor},
        es \in {Absent, Table(<<Mat(E2)>>)}}

\* workbooks that list one union and one state only
ShortDias == Table(<<DiasUteis(UnionSP, Num(MaxBaseDays - 3))>>)
ShortValor == Table(<<Valor(StateSP, Num(3600))>>)

\* the folders an instance is pointed at one after the other
RerunFolders ==
    {[BaseFolder EXCEPT !["desligados"] = LateDismissals, !["estagio"] = es,
                        !["dias_uteis"] = du, !["sindicato_valor"] = sv] :
        es \in {Absent, Table(<<Mat(E1)>>)},
        du \in {DefaultDias, ShortDias},
        sv \in {DefaultValor, ShortValor}}

\* records handed to the validator: largest number of records in a frame
MaxRecords == 3

InCompetency == Timestamp(CompetenceYear, CompetenceMonth, 1)

\* an empty 'Competência' text
EmptyDate == [kind |-> "empty", year |-> 0, month |-> 0, day |-> 0]

\* a record of the consolidated frame, amounts in cents
Rec(matricula, union, competence, days, total, company, professional) ==
    [Matricula |-> matricula,
     Admissao |-> NoDate,
     Sindicato |-> union,
     Competencia |-> competence,
     Dias |-> days,
     ValorDiario |-> DefaultDailyValue,
     TOTAL |-> total,
     CustoEmpresa |-> company,
     DescontoProfissional |-> professional,
     OBS |-> generate_observations(0, NoDate, NoDate)]

SampleRecords ==
    {Rec(E1, UnionSP, InCompetency, 22, 82522, 66018, 16504),
     Rec(E2, UnionXX, InCompetency, 21, 73563, 58850, 14713),
     Rec(E1, UnionSP, InCompetency, 0 - 1, 0 - 3751, 0 - 3001, 0 - 750),
     Rec(E2, UnionSP, InCompetency, 5, 0, 0, 0),
     Rec(E1, UnionSP, InCompetency, 1, 100, 80, 22),
     Rec(E2, UnionSP, InCompetency, 1, 100, 80, 21),
     Rec(E1, UnionSP, InCompetency, 20, 75020, 60016, 15005),
     Rec(E2, UnionSP, InCompetency, 22, 440000, 352000, 88000),
     Rec(E1, UnionSP, InCompetency, 31, 116281, 93025, 23256),
     Rec(MissingText, UnionSP, InCompetency, 22, 82522, 66018, 16504),
     Rec(E1, EmptyText, InCompetency, 22, 82522, 66018, 16504),
     Rec(E2, UnionSP, NoDate, 22, 82522, 66018, 16504),
     Rec(E2, UnionSP, EmptyDate, 22, 82522, 66018, 16504)}

RECURSIVE FramesOf(_)
\* the record sequences of a given length
FramesOf(n) ==
    IF n = 0 THEN {<<>>}
    ELSE {Append(f, r) : f \in FramesOf(n - 1), r \in SampleRecords}

RecordFrames == UNION {FramesOf(n) : n \in 0..MaxRecords}

Folders == AdmissionFolders \cup DismissalFolders \cup ExclusionFolders
           \cup RateFolders \cup FullMonthFolders

(***************************************************************************)
(* State of one VRAutomation instance and of its environment               *)
(***************************************************************************)
VARIABLES
    files,                  \* the workbooks of the input folder
    folder_exists,          \* whether the input folder exists
    dt_accessor_infers,     \* whether Series.dt accepts an object-typed column
    loaded_data,            \* DataLoader.loaded_data, the dict raw_data and
                            \* processed_data refer to once they are set
    raw_data_set,           \* self.raw_data is that dict (else {})
    processed_data_set,     \* self.processed_data is that dict (else {})
    business_days_mapping,  \* CalculationEngine.business_days_mapping
    daily_values_mapping,   \* CalculationEngine.daily_values_mapping
    exclusion_details,      \* ExclusionManager.exclusion_details
    final_result,           \* self.final_result: [set, rows]
    processing_stats,       \* self.processing_stats: [set, v]
    validation,             \* what validate_data found and returned last
    report,                 \* the workbook generate_final_report wrote last
    summary,                \* what generate_summary_report returned last
    detailed_report,        \* the workbook export_detailed_report wrote last
    last_call,              \* the method called last
    outcome                 \* "ok", or the exception that call raised

vars == <<files, folder_exists, dt_accessor_infers, loaded_data, raw_data_set,
          processed_data_set, business_days_mapping, daily_values_mapping,
          exclusion_details, final_result, processing_stats, validation,
          report, summary, detailed_report, last_call, outcome>>

NoTables == [n \in SourceNames |-> Absent]

NoDetails == [directors |-> {}, interns |-> {}, apprentices |-> {},
              away |-> {}, exterior |-> {}]

NoValidation == [called |-> FALSE, findings |-> <<>>, passed |-> FALSE]

NoReport == [written |-> FALSE, rows |-> <<>>, stats |-> [set |-> FALSE, v |-> NoStats]]

\* returned is FALSE while the method has returned None or nothing yet
NoSummary == [called |-> FALSE, returned |-> FALSE, rows |-> <<>>]

NoDetailedReport ==
    [written |-> FALSE, rows |-> <<>>, summary |-> NoSummary,
     stats |-> [set |-> FALSE, v |-> NoStats], exclusions |-> NoDetails]

\* the instance after VRAutomation.__init__ and its collaborators' __init__
NewInstance ==
    /\ loaded_data = NoTables
    /\ raw_data_set = FALSE
    /\ processed_data_set = FALSE
    /\ business_days_mapping = <<>>
    /\ daily_values_mapping = <<>>
    /\ exclusion_details = NoDetails
    /\ final_result = [set |-> FALSE, rows |-> <<>>]
    /\ processing_stats = [set |-> FALSE, v |-> NoStats]
    /\ validation = NoValidation
    /\ report = NoReport
    /\ summary = NoSummary
    /\ detailed_report = NoDetailedReport
    /\ last_call = "init"
    /\ outcome = "ok"

Init ==
    /\ \/ files \in Folders /\ folder_exists = TRUE
       \/ files = NoTables /\ folder_exists = FALSE
    /\ dt_accessor_infers \in BOOLEAN
    /\ NewInstance

\* the fields of the instance and of its collaborators, as one record
Self ==
    [loaded_data |-> loaded_data,
     raw_data_set |-> raw_data_set,
     processed_data_set |-> processed_data_set,
     business_days_mapping |-> business_days_mapping,
     daily_values_mapping |-> daily_values_mapping,
     exclusion_details |-> exclusion_details,
     final_result |-> final_result,
     processing_stats |-> processing_stats,
     validation |-> validation,
     report |-> report,
     summary |-> summary,
     detailed_report |-> detailed_report]

\* how a method ends: the fields it leaves, and "ok" or the exception raised
Returned(self) == [self |-> self, outcome |-> "ok"]

Raised(self, exception) == [self |-> self, outcome |-> exception]

EssentialFiles == {"ativos", "sindicato_valor", "dias_uteis"}

\* DataLoader.load_all_data: a workbook found replaces the entry of its name,
\* a workbook not found leaves the entry as it is
load_all_data(loaded, folder) ==
    [n \in SourceNames |-> IF folder[n].present THEN folder[n] ELSE loaded[n]]

\* VRAutomation.load_data
load_data(self, folder, exists) ==
    IF ~exists THEN Raised(self, "FileNotFoundError")
    ELSE LET loaded == load_all_data(self.loaded_data, folder)
             read == [self EXCEPT !.loaded_data = loaded]
         IN IF \E n \in EssentialFiles : ~loaded[n].present
            THEN Raised(read, "ValueError")
            ELSE Returned([read EXCEPT !.raw_data_set = TRUE])

\* process_data without the "if not self.raw_data" guard
ProcessDataUnguarded(self) ==
    Returned([self EXCEPT
                !.loaded_data = clean_and_standardize(self.loaded_data),
                !.processed_data_set = TRUE])

\* VRAutomation.process_data
process_data(self) ==
    IF ~self.raw_data_set THEN Raised(self, "ValueError")
    ELSE Returned([self EXCEPT
                     !.loaded_data = clean_and_standardize(self.loaded_data),
                     !.processed_data_set = TRUE])

\* VRAutomation.create_consolidated_base
create_consolidated_base(self, infers, competence_month, competence_year) ==
    LET data == self.loaded_data
        days == build_business_days_mapping(self.business_days_mapping, data)
        values == build_daily_values_mapping(self.daily_values_mapping, data)
        base == enrich_base_data(BaseRows(data), data)
        kept == RemoveExcluded(base, identify_exclusions(data))
        eligible == apply_eligibility_rules(kept)
        results == generate_final_records(eligible, days.map, values,
                                          competence_month, competence_year)
        counted == [self EXCEPT !.business_days_mapping = days.map]
        prepared == [counted EXCEPT !.daily_values_mapping = values]
        excluded == [prepared EXCEPT !.exclusion_details = ExclusionDetails(data)]
        built == [excluded EXCEPT !.final_result = [set |-> TRUE, rows |-> results]]
    IN IF ~self.processed_data_set
       THEN \* "Dados não processados"
            Raised(self, "ValueError")
       ELSE IF days.raised
       THEN \* int() of a text cell in _build_business_days_mapping
            Raised(counted, "ValueError")
       ELSE IF ~data["ativos"].present
       THEN \* "Base de colaboradores ativos não encontrada!"
            Raised(prepared, "ValueError")
       ELSE IF MaskIsAmbiguous(kept)
       THEN Raised(excluded, "ValueError")
       ELSE IF DtAccessorRaises(kept, infers)
       THEN \* Data_Demissao was created as an object column
            Raised(excluded, "AttributeError")
       ELSE IF DateIsText(eligible)
       THEN \* calculate_days_worked reads .month of a str
            Raised(excluded, "AttributeError")
       ELSE IF results = <<>>
       THEN \* an empty frame has no 'Dias' column
            Raised(built, "KeyError")
       ELSE Returned([built EXCEPT !.processing_stats =
                        [set |-> TRUE,
                         v |-> MakeStats(results, Len(base) - Len(kept))]])

\* VRAutomation.validate_data
validate_data(self) ==
    IF ~self.final_result.set
    THEN Returned([self EXCEPT !.validation =
                     [called |-> TRUE, findings |-> <<>>, passed |-> FALSE]])
    ELSE IF self.final_result.rows = <<>>
    THEN \* df['Dias'] of a frame without columns
         Raised(self, "KeyError")
    ELSE LET validations == validate_processed_data(self.final_result.rows)
         IN Returned([self EXCEPT !.validation =
                        [called |-> TRUE, findings |-> validations,
                         passed |-> validation_passed(validations)]])

\* VRAutomation.generate_final_report; sorted_rows is the order sort_values
\* gave the frame
generate_final_report(self, sorted_rows) ==
    IF ~self.final_result.set THEN Raised(self, "ValueError")
    ELSE IF self.final_result.rows = <<>>
    THEN \* sort_values('Matricula') of a frame without columns
         Raised(self, "KeyError")
    ELSE Returned([self EXCEPT
                     !.final_result = [set |-> TRUE, rows |-> sorted_rows],
                     !.report = [written |-> TRUE, rows |-> sorted_rows,
                                 stats |-> self.processing_stats]])

\* VRAutomation.generate_summary_report; frame is the summary the sort left.
\* Without a result, and when groupby raises on a frame without columns (the
\* except clause logs it), the method returns None
generate_summary_report(self, frame) ==
    IF ~self.final_result.set \/ self.final_result.rows = <<>>
    THEN Returned([self EXCEPT !.summary =
                     [called |-> TRUE, returned |-> FALSE, rows |-> <<>>]])
    ELSE Returned([self EXCEPT !.summary =
                     [called |-> TRUE, returned |-> TRUE, rows |-> frame]])

\* VRAutomation.export_detailed_report: the records, the summary when there
\* is one, the statistics when they are set, the exclusion details
export_detailed_report(self, frame) ==
    IF ~self.final_result.set THEN Raised(self, "ValueError")
    ELSE LET summarised == generate_summary_report(self, frame).self
         IN Returned([summarised EXCEPT !.detailed_report =
                        [written |-> TRUE,
                         rows |-> self.final_result.rows,
                         summary |-> summarised.summary,
                         stats |-> self.processing_stats,
                         exclusions |-> self.exclusion_details]])

\* run_complete_process without its second stage
RunUntilValidatedWithoutProcessing(self, folder, exists, infers, month, year) ==
    LET loaded == load_data(self, folder, exists)
        consolidated == IF loaded.outcome = "ok"
                        THEN create_consolidated_base(loaded.self, infers,
                                                      month, year)
                        ELSE loaded
    IN IF consolidated.outcome = "ok"
       THEN validate_data(consolidated.self) ELSE consolidated

\* VRAutomation.run_complete_process up to the validation: the try block
\* stops at the first call that raises
RunUntilValidated(self, folder, exists, infers, month, year) ==
    LET loaded == load_data(self, folder, exists)
        processed == IF loaded.outcome = "ok"
                     THEN process_data(loaded.self) ELSE loaded
        consolidated == IF processed.outcome = "ok"
                        THEN create_consolidated_base(processed.self, infers,
                                                      month, year)
                        ELSE processed
    IN IF consolidated.outcome = "ok"
       THEN validate_data(consolidated.self) ELSE consolidated

\* what a method call leaves: the fields and its outcome
Effect(name, result) ==
    /\ last_call' = name
    /\ outcome' = result.outcome
    /\ loaded_data' = result.self.loaded_data
    /\ raw_data_set' = result.self.raw_data_set
    /\ processed_data_set' = result.self.processed_data_set
    /\ business_days_mapping' = result.self.business_days_mapping
    /\ daily_values_mapping' = result.self.daily_values_mapping
    /\ exclusion_details' = result.self.exclusion_details
    /\ final_result' = result.self.final_result
    /\ processing_stats' = result.self.processing_stats
    /\ validation' = result.self.validation
    /\ report' = result.self.report
    /\ summary' = result.self.summary
    /\ detailed_report' = result.self.detailed_report

\* a method call on the folder of the run, the environment untouched
Call(name, result) ==
    /\ Effect(name, result)
    /\ UNCHANGED <<files, folder_exists, dt_accessor_infers>>

LoadData == Call("load_data", load_data(Self, files, folder_exists))

ProcessData == Call("process_data", process_data(Self))

Consolidate(competence_month, competence_year) ==
    Call("create_consolidated_base",
         create_consolidated_base(Self, dt_accessor_infers,
                                  competence_month, competence_year))

CreateConsolidatedBase == Consolidate(CompetenceMonth, CompetenceYear)

ValidateData == Call("validate_data", validate_data(Self))

GenerateFinalReport ==
    \E sorted_rows \in sort_values(final_result.rows) :
        Call("generate_final_report", generate_final_report(Self, sorted_rows))

GenerateSummaryReport ==
    \E frame \in SummaryFrames(final_result.rows) :
        Call("generate_summary_report", generate_summary_report(Self, frame))

ExportDetailedReport ==
    \E frame \in SummaryFrames(final_result.rows) :
        Call("export_detailed_report", export_detailed_report(Self, frame))

\* the end of run_complete_process: the final report, then the summary
ReportAndSummarise(validated, sorted_rows, frame) ==
    LET reported == generate_final_report(validated.self, sorted_rows)
    IN IF validated.outcome # "ok" THEN validated
       ELSE IF reported.outcome # "ok" THEN reported
       ELSE generate_summary_report(reported.self, frame)

\* run_complete_process(files_folder, 5, 2025): a failed validation is logged
\* and the report is generated all the same
RunCompleteProcess ==
    LET validated == RunUntilValidated(Self, files, folder_exists,
                                       dt_accessor_infers,
                                       CompetenceMonth, CompetenceYear)
    IN \E sorted_rows \in sort_values(validated.self.final_result.rows) :
       \E frame \in SummaryFrames(validated.self.final_result.rows) :
          Call("run_complete_process",
               ReportAndSummarise(validated, sorted_rows, frame))

Next ==
    \/ LoadData
    \/ ProcessData
    \/ CreateConsolidatedBase

Spec == Init /\ [][Next]_vars

\* the whole interface of VRAutomation, on the folders of RunFolders
InitRun ==
    /\ \/ files \in RunFolders /\ folder_exists = TRUE
       \/ files = NoTables /\ folder_exists = FALSE
    /\ dt_accessor_infers \in BOOLEAN
    /\ NewInstance

NextRun ==
    \/ LoadData
    \/ ProcessData
    \/ CreateConsolidatedBase
    \/ ValidateData
    \/ GenerateFinalReport
    \/ RunCompleteProcess

SpecRun == InitRun /\ [][NextRun]_vars

\* load_data(files_folder) with a folder of the caller's choice
LoadFolder ==
    \E folder \in RerunFolders :
        /\ files' = folder
        /\ Effect("load_data", load_data(Self, folder, folder_exists))
        /\ UNCHANGED <<folder_exists, dt_accessor_infers>>

\* one instance used for several runs, each on a folder of its own
InitRerun ==
    /\ files \in RerunFolders
    /\ folder_exists = TRUE
    /\ dt_accessor_infers \in BOOLEAN
    /\ NewInstance

NextRerun ==
    \/ LoadFolder
    \/ ProcessData
    \/ CreateConsolidatedBase

SpecRerun == InitRerun /\ [][NextRerun]_vars

\* every method but run_complete_process, on the folders of ReportFolders
InitReports ==
    /\ files \in ReportFolders
    /\ folder_exists = TRUE
    /\ dt_accessor_infers \in BOOLEAN
    /\ NewInstance

NextReports ==
    \/ LoadData
    \/ ProcessData
    \/ CreateConsolidatedBase
    \/ ValidateData
    \/ GenerateFinalReport
    \/ GenerateSummaryReport
    \/ ExportDetailedReport

SpecReports == InitReports /\ [][NextReports]_vars

\* the validator on any record sequence: final_result holds the frame
InitValidator ==
    /\ files = NoTables
    /\ folder_exists = FALSE
    /\ dt_accessor_infers = TRUE
    /\ loaded_data = NoTables
    /\ raw_data_set = FALSE
    /\ processed_data_set = FALSE
    /\ business_days_mapping = <<>>
    /\ daily_values_mapping = <<>>
    /\ exclusion_details = NoDetails
    /\ final_result \in {[set |-> TRUE, rows |-> f] : f \in RecordFrames}
    /\ processing_stats = [set |-> FALSE, v |-> NoStats]
    /\ validation = NoValidation
    /\ report = NoReport
    /\ summary = NoSummary
    /\ detailed_report = NoDetailedReport
    /\ last_call = "init"
    /\ outcome = "ok"

NextValidator == ValidateData

SpecValidator == InitValidator /\ [][NextValidator]_vars

(***************************************************************************)
(* Properties                                                              *)
(***************************************************************************)
\* create_consolidated_base has just returned: loaded_data is the data it
\* read, final_result the frame it built
Consolidated == last_call = "create_consolidated_base" /\ outcome = "ok"

Output == final_result.rows

Roster == loaded_data["ativos"].rows

ExclusionSet == exclusion_details.directors \cup exclusion_details.interns
                \cup exclusion_details.apprentices \cup exclusion_details.away
                \cup exclusion_details.exterior

RecordsOf(matricula) == {i \in 1..Len(Output) : Output[i].Matricula = matricula}

\* the rows a workbook holds for an id (none when the workbook is absent)
SourceRows(name, matricula) ==
    {i \in 1..Len(loaded_data[name].rows) :
        loaded_data[name].rows[i].MATRICULA = matricula}

InPeriod(date) ==
    /\ date.kind = "ts"
    /\ date.month = CompetenceMonth
    /\ date.year = CompetenceYear

\* the id has exactly one DESLIGADOS row, dated in the competency period
DismissedInPeriod(matricula) ==
    /\ Cardinality(SourceRows("desligados", matricula)) = 1
    /\ \A i \in SourceRows("desligados", matricula) :
          InPeriod(loaded_data["desligados"].rows[i].DATA_DEMISSAO)

Dismissal(matricula) ==
    loaded_data["desligados"].rows[
        CHOOSE i \in SourceRows("desligados", matricula) : TRUE]

\* some ADMISSÃO row of the id is dated in the competency period
AdmittedInPeriod(matricula) ==
    \E i \in SourceRows("admissao", matricula) :
        InPeriod(loaded_data["admissao"].rows[i].Admissao)

\* the working days of a union, as the run's table gives them
BaseDaysOf(union) == DictGet(business_days_mapping, union, DefaultBaseDays)

RosterIdsUnique ==
    \A i, j \in 1..Len(Roster) :
        i # j => Roster[i].MATRICULA # Roster[j].MATRICULA

\* C1: with one roster row per registration id, each id is in at most one
\* output record, whatever the admissions, vacation and terminations hold
C1_UniqueOutputIds ==
    (Consolidated /\ RosterIdsUnique) =>
        \A i, j \in 1..Len(Output) :
            i # j => Output[i].Matricula # Output[j].Matricula

\* C2: no output record carries an id of the ExclusionSet
C2_NoExcludedInOutput ==
    Consolidated =>
        \A i \in 1..Len(Output) : Output[i].Matricula \notin ExclusionSet

\* an excluded roster employee was left out while another one was paid
C2_Witness ==
    /\ Consolidated
    /\ Len(Output) > 0
    /\ \E i \in 1..Len(Roster) :
          /\ Roster[i].MATRICULA \in exclusion_details.exterior
          /\ Roster[i].MATRICULA \notin exclusion_details.interns
          /\ RecordsOf(Roster[i].MATRICULA) = {}

\* C3: a roster employee outside the ExclusionSet is dropped exactly when the
\* notice is "OK", the dismissal date lies in the competency month and year,
\* and its day is at most 15
C3_GateIffInPeriod ==
    Consolidated =>
        \A i \in 1..Len(Roster) :
            LET id == Roster[i].MATRICULA
            IN (id \notin ExclusionSet
                /\ Cardinality(SourceRows("desligados", id)) <= 1) =>
                   ((RecordsOf(id) = {}) <=>
                      /\ DismissedInPeriod(id)
                      /\ Dismissal(id).COMUNICADO = "OK"
                      /\ Dismissal(id).DATA_DEMISSAO.day <= DismissalCutoffDay)

\* C4: with notice "OK" and a dismissal dated in the competency month, day 15
\* removes the employee and day 16 keeps them; a surviving employee dismissed
\* on day d of the month, not admitted in it, is paid floor(base_days*d/30)
C4_DismissalBoundary ==
    Consolidated =>
        \A i \in 1..Len(Roster) :
            LET id == Roster[i].MATRICULA
            IN (id \notin ExclusionSet /\ DismissedInPeriod(id)) =>
                 LET notice == Dismissal(id).COMUNICADO
                     d == Dismissal(id).DATA_DEMISSAO.day
                 IN /\ (notice = "OK" /\ d = DismissalCutoffDay)
                          => RecordsOf(id) = {}
                    /\ (notice = "OK" /\ d = DismissalCutoffDay + 1)
                          => RecordsOf(id) # {}
                    /\ ~AdmittedInPeriod(id) =>
                          \A k \in RecordsOf(id) :
                              Output[k].Dias =
                                (BaseDaysOf(Output[k].Sindicato) * d) \div MonthDays

\* an employee dismissed on day 16 with notice "OK" is in the output, prorated
C4_Witness ==
    /\ Consolidated
    /\ \E i \in 1..Len(Roster) :
          LET id == Roster[i].MATRICULA
          IN /\ DismissedInPeriod(id)
             /\ Dismissal(id).COMUNICADO = "OK"
             /\ Dismissal(id).DATA_DEMISSAO.day = DismissalCutoffDay + 1
             /\ \E k \in RecordsOf(id) :
                   /\ Output[k].Dias > 0
                   /\ Output[k].Dias < BaseDaysOf(Output[k].Sindicato)

\* C5: a record whose admission date lies in the competency month and year
\* has payable_days = floor(base_days * (30 - a + 1) / 30), a the admission day
C5_AdmissionProration ==
    Consolidated =>
        \A k \in 1..Len(Output) :
            InPeriod(Output[k].Admissao) =>
                Output[k].Dias =
                    (BaseDaysOf(Output[k].Sindicato)
                        * (MonthDays - Output[k].Admissao.day + 1)) \div MonthDays

\* C6: when the admission date and the dismissal date both lie in the
\* competency month and year, payable_days is the admission formula
C6_AdmissionPrecedence ==
    Consolidated =>
        \A k \in 1..Len(Output) :
            (InPeriod(Output[k].Admissao) /\ DismissedInPeriod(Output[k].Matricula)) =>
                Output[k].Dias =
                    (BaseDaysOf(Output[k].Sindicato)
                        * (MonthDays - Output[k].Admissao.day + 1)) \div MonthDays

\* the vacation days FÉRIAS records for an id: its last row, 0 when the cell
\* is empty or the id has no row
VacationOf(matricula) ==
    LET rows == SourceRows("ferias", matricula)
    IN IF rows = {} THEN 0
       ELSE LET last == CHOOSE i \in rows : \A j \in rows : j <= i
                cell == loaded_data["ferias"].rows[last].DIAS
            IN IF cell.kind = "num" THEN cell.v ELSE 0

NeitherInPeriod(k) ==
    /\ ~InPeriod(Output[k].Admissao)
    /\ Cardinality(SourceRows("desligados", Output[k].Matricula)) <= 1
    /\ ~DismissedInPeriod(Output[k].Matricula)

\* C7: with neither the admission nor the dismissal date in the competency
\* month and year, payable_days = max(0, base_days - vacation_days)
C7_VacationSubtraction ==
    Consolidated =>
        \A k \in 1..Len(Output) :
            NeitherInPeriod(k) =>
                Output[k].Dias =
                    Max(0, BaseDaysOf(Output[k].Sindicato)
                             - VacationOf(Output[k].Matricula))

\* a record paid for base_days minus a positive number of vacation days
C7_Witness ==
    /\ Consolidated
    /\ \E k \in 1..Len(Output) :
          /\ NeitherInPeriod(k)
          /\ VacationOf(Output[k].Matricula) > 0
          /\ Output[k].Dias > 0
          /\ Output[k].Dias =
                BaseDaysOf(Output[k].Sindicato) - VacationOf(Output[k].Matricula)

\* C8: every output record has payable_days >= 0
C8_NonNegativeDays ==
    final_result.set => \A k \in 1..Len(Output) : Output[k].Dias >= 0

\* a record whose vacation days exceed the union's working days, paid 0 days
C8_Witness ==
    /\ Consolidated
    /\ \E k \in 1..Len(Output) :
          /\ Output[k].Dias = 0
          /\ Output[k].OBS.ferias > BaseDaysOf(Output[k].Sindicato)

\* C9: employer_cost + employee_deduction is within 0.01 of total_value
C9_SplitWithinTolerance ==
    final_result.set =>
        \A k \in 1..Len(Output) :
            Abs(Output[k].CustoEmpresa + Output[k].DescontoProfissional
                  - Output[k].TOTAL) <= SplitToleranceCents

\* a record whose 80% share is not a whole number of cents
C9_Witness ==
    /\ final_result.set
    /\ \E k \in 1..Len(Output) :
          /\ Output[k].TOTAL > 0
          /\ (Output[k].TOTAL * CompanyPercent) % 100 # 0

\* C10: total_value is payable_days * daily_rate, the two shares are 80% and
\* 20% of that product rounded to the cent, and daily_rate is the rate
\* resolved for the record's union
C10_RecordArithmetic ==
    Consolidated =>
        \A k \in 1..Len(Output) :
            LET r == Output[k]
                product == r.Dias * r.ValorDiario
            IN /\ r.ValorDiario = get_daily_value(daily_values_mapping, r.Sindicato)
               /\ r.TOTAL = product
               /\ 2 * Abs(100 * r.CustoEmpresa - CompanyPercent * product) <= 100
               /\ 2 * Abs(100 * r.DescontoProfissional - ProfessionalPercent * product)
                     <= 100

\* a record at a state's own rate whose 20% share was rounded up
C10_Witness ==
    /\ Consolidated
    /\ \E k \in 1..Len(Output) :
          /\ Output[k].Dias > 0
          /\ Output[k].ValorDiario # DefaultDailyValue
          /\ (Output[k].Dias * Output[k].ValorDiario * ProfessionalPercent) % 100 > 50

\* the dismissal gate as the specification words it: notice "OK", dismissal
\* dated in the competency month and year, on day 15 or earlier
GateDrops(matricula) ==
    /\ DismissedInPeriod(matricula)
    /\ Dismissal(matricula).COMUNICADO = "OK"
    /\ Dismissal(matricula).DATA_DEMISSAO.day <= DismissalCutoffDay

\* C11: the output holds exactly one record for each roster employee who is
\* neither in the ExclusionSet nor dropped by the dismissal gate, payable
\* days 0 included, and no record for anyone else
C11_ExactlyOneRecordEach ==
    (Consolidated /\ RosterIdsUnique) =>
        /\ \A i \in 1..Len(Roster) :
              LET id == Roster[i].MATRICULA
              IN Cardinality(RecordsOf(id)) =
                    IF id \notin ExclusionSet /\ ~GateDrops(id) THEN 1 ELSE 0
        /\ \A k \in 1..Len(Output) :
              \E i \in 1..Len(Roster) : Roster[i].MATRICULA = Output[k].Matricula

\* the rows of DIAS UTEIS whose normalized union is the given one
DayRows(union) ==
    {i \in 1..Len(loaded_data["dias_uteis"].rows) :
        NormalizeText(loaded_data["dias_uteis"].rows[i].SINDICATO) = union}

\* the normalized region names of the rate workbook
Regions ==
    {NormalizeText(loaded_data["sindicato_valor"].rows[i].ESTADO) :
        i \in 1..Len(loaded_data["sindicato_valor"].rows)}

NamesNoRegion(union) == \A s \in Regions : ~StrContains(StrUpper(union), s)

\* the record's payable days are its union's base days: no proration applies
\* and the employee took no vacation
PaidBaseDays(k) == NeitherInPeriod(k) /\ VacationOf(Output[k].Matricula) = 0

\* C12: a union naming no region of the rate table gets the daily rate 35.00;
\* a union that is no key of the working-days table gets 22 base days, and a
\* union that is a key gets the day count of its row
C12_LookupDefaults ==
    Consolidated =>
        \A k \in 1..Len(Output) :
            LET r == Output[k]
                rows == DayRows(r.Sindicato)
                last == CHOOSE i \in rows : \A j \in rows : j <= i
                cell == loaded_data["dias_uteis"].rows[last].DIAS
            IN /\ NamesNoRegion(r.Sindicato) => r.ValorDiario = DefaultDailyValue
               /\ (PaidBaseDays(k) /\ rows = {}) => r.Dias = DefaultBaseDays
               /\ (PaidBaseDays(k) /\ rows # {} /\ cell.kind = "num") => r.Dias = cell.v

\* one record took both defaults while another was paid its union's own days
C12_Witness ==
    /\ Consolidated
    /\ \E k \in 1..Len(Output) :
          /\ NamesNoRegion(Output[k].Sindicato)
          /\ DayRows(Output[k].Sindicato) = {}
          /\ PaidBaseDays(k)
          /\ Output[k].Dias = DefaultBaseDays
          /\ Output[k].ValorDiario = DefaultDailyValue
          /\ Regions # {}

\* C13: load_data raises exactly when the roster is absent or both rate
\* sources are absent; with one rate source absent the run goes on
C13_MissingSourceFailures ==
    (last_call = "load_data" /\ folder_exists) =>
        ((outcome # "ok") <=>
            \/ ~loaded_data["ativos"].present
            \/ /\ ~loaded_data["dias_uteis"].present
               /\ ~loaded_data["sindicato_valor"].present)

OptionalSources == {"admissao", "desligados", "afastamentos", "estagio",
                    "aprendiz", "exterior", "ferias"}

\* nothing in the workbooks that are present stops the run: day counts and
\* dates are not text, no id has two DESLIGADOS rows, and some roster
\* employee is neither excluded nor dismissed with notice by day 15
SourcesWellFormed ==
    /\ \A n \in EssentialFiles : loaded_data[n].present
    /\ \A i \in 1..Len(loaded_data["dias_uteis"].rows) :
          loaded_data["dias_uteis"].rows[i].DIAS.kind # "text"
    /\ \A i \in 1..Len(loaded_data["admissao"].rows) :
          loaded_data["admissao"].rows[i].Admissao.kind # "bad"
    /\ \A i \in 1..Len(loaded_data["desligados"].rows) :
          loaded_data["desligados"].rows[i].DATA_DEMISSAO.kind # "bad"
    /\ \E i \in 1..Len(Roster) :
          LET id == Roster[i].MATRICULA
          IN /\ id \notin identify_exclusions(loaded_data)
             /\ \A j \in SourceRows("desligados", id) :
                   loaded_data["desligados"].rows[j].COMUNICADO # "OK"
    /\ \A i \in 1..Len(Roster) :
          Cardinality(SourceRows("desligados", Roster[i].MATRICULA)) <= 1

\* C14: with any of the optional sources absent, create_consolidated_base
\* completes and the missing data count as defaults: no vacation days, no
\* admission date, no dismissal date, an empty exclusion category
C14_OptionalSourcesAbsent ==
    (/\ last_call = "create_consolidated_base"
     /\ processed_data_set
     /\ SourcesWellFormed
     /\ \E n \in OptionalSources : ~loaded_data[n].present) =>
        /\ outcome = "ok"
        /\ \A k \in 1..Len(Output) :
              /\ ~loaded_data["ferias"].present => Output[k].OBS.ferias = 0
              /\ ~loaded_data["admissao"].present => Output[k].Admissao = NoDate
              /\ ~loaded_data["desligados"].present => Output[k].OBS.demissao = NoDate
        /\ ~loaded_data["estagio"].present => exclusion_details.interns = {}
        /\ ~loaded_data["aprendiz"].present => exclusion_details.apprentices = {}
        /\ ~loaded_data["afastamentos"].present => exclusion_details.away = {}
        /\ ~loaded_data["exterior"].present => exclusion_details.exterior = {}

\* C15: building the working-days table never fails: every row of DIAS UTEIS
\* leaves an entry for its union, 22 when the row's day count is missing or
\* not a number (the last row of a union is the one that stays)
C15_BusinessDaysNeverFails ==
    (/\ last_call = "create_consolidated_base"
     /\ processed_data_set
     /\ loaded_data["dias_uteis"].present) =>
        \A i \in 1..Len(loaded_data["dias_uteis"].rows) :
            LET union == NormalizeText(loaded_data["dias_uteis"].rows[i].SINDICATO)
                rows == DayRows(union)
                last == CHOOSE j \in rows : \A l \in rows : l <= j
                cell == loaded_data["dias_uteis"].rows[last].DIAS
            IN /\ DictHas(business_days_mapping, union)
               /\ BaseDaysOf(union) =
                     IF cell.kind = "num" THEN cell.v ELSE DefaultBaseDays

\* some registration id is on two records of the frame
DuplicateIds ==
    \E i, j \in 1..Len(Output) : i # j /\ Output[i].Matricula = Output[j].Matricula

\* C16: when duplicate registration ids are in the consolidated output,
\* run_complete_process raises and does not write the report
C16_DuplicatesAbortRun ==
    (last_call = "run_complete_process" /\ final_result.set /\ DuplicateIds) =>
        outcome # "ok"

\* validate_data has just returned its findings on the frame of final_result
Validated == last_call = "validate_data" /\ outcome = "ok" /\ final_result.set

Findings == validation.findings

\* the level a check must report: its own level when a record meets the
\* condition, INFO otherwise
LevelFor(level, met) == IF met THEN level ELSE "INFO"

\* C17: validate_processed_data returns six findings, one per check and in
\* the order of the checks, on every record sequence; a finding is ERROR
\* (negative days, days without value, split off by more than 0.01, duplicate
\* ids) or WARNING (extreme values, missing required field) exactly when a
\* record meets the condition, and INFO with count 0 otherwise
C17_SixFindings ==
    (last_call = "validate_data" /\ final_result.set) =>
        /\ outcome = "ok"
        /\ Len(Findings) = 6
        /\ [i \in 1..6 |-> Findings[i].message] =
              <<"negative_days", "value_consistency", "cost_split",
                "duplicate_registrations", "extreme_values", "required_fields">>
        /\ Findings[1].level =
              LevelFor("ERROR", \E k \in 1..Len(Output) : Output[k].Dias < 0)
        /\ Findings[2].level =
              LevelFor("ERROR", \E k \in 1..Len(Output) :
                                   Output[k].Dias > 0 /\ Output[k].TOTAL <= 0)
        /\ Findings[3].level =
              LevelFor("ERROR", \E k \in 1..Len(Output) :
                  Abs(Output[k].CustoEmpresa + Output[k].DescontoProfissional
                        - Output[k].TOTAL) > SplitToleranceCents)
        /\ Findings[4].level = LevelFor("ERROR", DuplicateIds)
        /\ Findings[5].level =
              LevelFor("WARNING", \E k \in 1..Len(Output) :
                  Output[k].TOTAL > ExtremeTotal \/ Output[k].Dias > ExtremeDays)
        /\ Findings[6].level =
              LevelFor("WARNING", \E k \in 1..Len(Output) :
                  \/ Output[k].Matricula = MissingText
                  \/ Output[k].Sindicato = MissingText
                  \/ Output[k].Competencia.kind = "None")
        /\ \A i \in 1..6 : Findings[i].level = "INFO" => Findings[i].count = 0

\* C18: validate_data returns true exactly when no finding is an ERROR;
\* WARNING findings leave the result true
C18_PassIffNoError ==
    Validated =>
        (validation.passed <=> \A i \in 1..Len(Findings) : Findings[i].level # "ERROR")

\* a frame with warnings and no error passed
C18_Witness ==
    /\ Validated
    /\ validation.passed
    /\ \E i \in 1..Len(Findings) : Findings[i].level = "WARNING"
    /\ Findings[5].level = "WARNING"

\* the registration ids of the frame, a missing id not being one
DistinctIds == {Output[k].Matricula : k \in 1..Len(Output)} \ {MissingText}

\* some registration id occurs more than once
RepeatedId ==
    \E i, j \in 1..Len(Output) :
        i # j /\ Output[i].Matricula = Output[j].Matricula
              /\ Output[i].Matricula # MissingText

\* C19: when some registration id occurs more than once, the uniqueness check
\* is an ERROR whose count is the number of records minus the number of
\* distinct ids, and validation does not pass; two records sharing one id
\* give the count 1
C19_DuplicateCount ==
    (Validated /\ RepeatedId) =>
        /\ Findings[4].level = "ERROR"
        /\ Findings[4].count = Len(Output) - Cardinality(DistinctIds)
        /\ ~validation.passed
        /\ (Len(Output) = 2 => Findings[4].count = 1)

\* three records of one id: the count is 2
C19_Witness ==
    /\ Validated
    /\ Len(Output) = 3
    /\ Cardinality(DistinctIds) = 1
    /\ \A k \in 1..Len(Output) : Output[k].Matricula # MissingText
    /\ Findings[4].count = 2
    /\ ~validation.passed

\* a required field of the record is absent or empty
FieldMissingOrEmpty(r) ==
    \/ r.Matricula \in {MissingText, EmptyText}
    \/ r.Sindicato \in {MissingText, EmptyText}
    \/ r.Competencia.kind \in {"None", "empty"}

\* C20: the required-fields check is a WARNING whenever a record has its
\* registration id, union or competency absent or empty, and INFO only when
\* the three are present and not empty on every record
C20_RequiredFields ==
    Validated =>
        (Findings[6].level = "WARNING" <=>
            \E k \in 1..Len(Output) : FieldMissingOrEmpty(Output[k]))

\* C21: validation is read-only and total: on every record sequence, the
\* empty one included, a call of validate_data returns without raising and
\* leaves final_result, processing_stats and the two rate tables as they were
C21_ValidationReadOnlyTotal ==
    [][last_call' = "validate_data" =>
          /\ outcome' = "ok"
          /\ UNCHANGED <<final_result, processing_stats,
                         business_days_mapping, daily_values_mapping>>]_vars

\* identify_exclusions has run in the call of create_consolidated_base that
\* came last
ExclusionsIdentified ==
    /\ last_call = "create_consolidated_base"
    /\ outcome \in {"ok", "AttributeError", "KeyError"}

\* the ids a workbook lists, none when it is absent
IdsOf(name) ==
    {loaded_data[name].rows[i].MATRICULA : i \in 1..Len(loaded_data[name].rows)}

\* the roster ids whose job title holds the keyword, in any letter case
DirectorIds ==
    {Roster[i].MATRICULA :
        i \in {j \in 1..Len(Roster) :
                  StrContains(StrUpper(Roster[j].CARGO), DirectorKeyword)}}

FiveCategories ==
    DirectorIds \cup IdsOf("estagio") \cup IdsOf("aprendiz")
        \cup IdsOf("afastamentos") \cup IdsOf("exterior")

\* C22: exclusion_details keeps for each category its own id set: directors
\* are the roster ids whose job title contains the keyword whatever the
\* letter case, the other four are all ids of their workbook, none when it is
\* absent; the set returned is the union of the five, so that the roster rows
\* taken out are those of an id of the union
C22_ExclusionCategories ==
    ExclusionsIdentified =>
        /\ exclusion_details.directors = DirectorIds
        /\ exclusion_details.interns = IdsOf("estagio")
        /\ exclusion_details.apprentices = IdsOf("aprendiz")
        /\ exclusion_details.away = IdsOf("afastamentos")
        /\ exclusion_details.exterior = IdsOf("exterior")
        /\ (/\ outcome = "ok"
            /\ \A i \in 1..Len(Roster) :
                  Cardinality(SourceRows("admissao", Roster[i].MATRICULA)) <= 1) =>
               processing_stats.v.excluded_count =
                  Cardinality({i \in 1..Len(Roster) :
                                  Roster[i].MATRICULA \in FiveCategories})

\* a director written in mixed case who is also an intern is recorded under
\* both categories, with the overseas workbook absent and a colleague paid
C22_Witness ==
    /\ Consolidated
    /\ exclusion_details.directors \cap exclusion_details.interns # {}
    /\ \E i \in 1..Len(Roster) :
          /\ Roster[i].MATRICULA \in exclusion_details.directors
          /\ ~StrContains(Roster[i].CARGO, DirectorKeyword)
    /\ ~loaded_data["exterior"].present
    /\ exclusion_details.exterior = {}
    /\ processing_stats.v.excluded_count = 1
    /\ Len(Output) = 1

\* C28: no output record is paid more days than the working days of its
\* union, whatever the admission day, the dismissal day and the vacation days
C28_DaysWithinBase ==
    Consolidated =>
        \A k \in 1..Len(Output) :
            Output[k].Dias <= BaseDaysOf(Output[k].Sindicato)

\* every roster employee is in one of the five exclusion categories or is
\* dropped by the dismissal gate
AllRemoved ==
    /\ Len(Roster) > 0
    /\ \A i \in 1..Len(Roster) :
          \/ Roster[i].MATRICULA \in FiveCategories
          \/ GateDrops(Roster[i].MATRICULA)

\* the workbooks hold nothing that stops a run: day counts and dates are not
\* text and no id has two DESLIGADOS rows
SourcesReadable ==
    /\ \A n \in EssentialFiles : loaded_data[n].present
    /\ \A i \in 1..Len(loaded_data["dias_uteis"].rows) :
          loaded_data["dias_uteis"].rows[i].DIAS.kind # "text"
    /\ \A i \in 1..Len(loaded_data["admissao"].rows) :
          loaded_data["admissao"].rows[i].Admissao.kind # "bad"
    /\ \A i \in 1..Len(loaded_data["desligados"].rows) :
          loaded_data["desligados"].rows[i].DATA_DEMISSAO.kind # "bad"
    /\ \A i \in 1..Len(Roster) :
          Cardinality(SourceRows("desligados", Roster[i].MATRICULA)) <= 1

\* C29: when every roster employee is removed by the ExclusionSet or by the
\* dismissal gate, create_consolidated_base completes without raising, leaves
\* the empty record sequence and statistics of 0 collaborators, days and value
C29_EmptyRunCompletes ==
    (/\ last_call = "create_consolidated_base"
     /\ processed_data_set
     /\ SourcesReadable
     /\ AllRemoved) =>
        /\ outcome = "ok"
        /\ final_result.set
        /\ Output = <<>>
        /\ processing_stats.set
        /\ processing_stats.v.total_collaborators = 0
        /\ processing_stats.v.total_days = 0
        /\ processing_stats.v.total_value = 0

RateSource == loaded_data["sindicato_valor"].rows

\* the rows of the rate source that give the region a rate
RateRows(region) ==
    {i \in 1..Len(RateSource) :
        /\ NormalizeText(RateSource[i].ESTADO) = region
        /\ RateSource[i].VALOR.kind = "num"}

FirstRow(region) == CHOOSE i \in RateRows(region) : \A j \in RateRows(region) : i <= j

LastRow(region) == CHOOSE i \in RateRows(region) : \A j \in RateRows(region) : j <= i

\* the regions with a rate whose name is in the union's name
MatchingRegions(union) ==
    {s \in Regions : RateRows(s) # {} /\ StrContains(StrUpper(union), s)}

\* C30: the rate of a union naming several regions is that of the matching
\* region whose first row is earliest in the rate source, at the value of the
\* region's last row; records of one union carry one rate
C30_RegionLookupDeterministic ==
    Consolidated =>
        /\ \A k \in 1..Len(Output) :
              LET matching == MatchingRegions(Output[k].Sindicato)
                  earliest == CHOOSE s \in matching :
                                 \A t \in matching : FirstRow(s) <= FirstRow(t)
              IN matching # {} =>
                    Output[k].ValorDiario = RateSource[LastRow(earliest)].VALOR.v
        /\ \A k, l \in 1..Len(Output) :
              Output[k].Sindicato = Output[l].Sindicato =>
                 Output[k].ValorDiario = Output[l].ValorDiario

\* two records of a union naming two regions, at the rate a later row gave
\* the region listed first
C30_Witness ==
    /\ Consolidated
    /\ Len(Output) = 2
    /\ Output[1].Sindicato = Output[2].Sindicato
    /\ \E s \in MatchingRegions(Output[1].Sindicato) :
          /\ Cardinality(MatchingRegions(Output[1].Sindicato)) = 2
          /\ FirstRow(s) = 1
          /\ LastRow(s) = 3
          /\ RateSource[1].VALOR.v # RateSource[3].VALOR.v
          /\ Output[1].ValorDiario = RateSource[3].VALOR.v
          /\ Output[1].ValorDiario # RateSource[2].VALOR.v

\* C24: a call of create_consolidated_base that follows a successful one on
\* the same instance, with the same processed tables and the same month and
\* year, succeeds with the same records; a call of process_data that follows
\* a successful one leaves the normalized tables as they are
C24_Idempotent ==
    [][/\ (/\ last_call = "create_consolidated_base"
            /\ outcome = "ok"
            /\ last_call' = "create_consolidated_base") =>
               /\ outcome' = "ok"
               /\ final_result' = final_result
               /\ processing_stats' = processing_stats
       /\ (/\ last_call = "process_data"
            /\ outcome = "ok"
            /\ last_call' = "process_data") =>
               /\ outcome' = "ok"
               /\ loaded_data' = loaded_data]_vars

\* the state a repeated call starts from and ends in: two records built from
\* tables whose ids and unions the normalization had to change, with rate
\* tables already filled by the call before
C24_Witness ==
    /\ Consolidated
    /\ Len(Output) = 2
    /\ loaded_data["ativos"] # files["ativos"]
    /\ loaded_data["ativos"] = clean_and_standardize(files)["ativos"]
    /\ Len(business_days_mapping) = 2
    /\ Len(daily_values_mapping) = 2

\* the records of the output that belong to a union
UnionRecords(union) == {k \in 1..Len(Output) : Output[k].Sindicato = union}

RECURSIVE SumOver(_, _)
\* the sum of a field over a set of records of the output
SumOver(records, field) ==
    IF records = {} THEN 0
    ELSE LET k == CHOOSE x \in records : TRUE
         IN Output[k][field] + SumOver(records \ {k}, field)

\* the summary returned agrees with the output record by record
SummaryMatchesOutput ==
    /\ summary.returned
    /\ Len(summary.rows) = Cardinality({Output[k].Sindicato : k \in 1..Len(Output)})
    /\ \A k \in 1..Len(Output) :
          \E i \in 1..Len(summary.rows) : summary.rows[i].Sindicato = Output[k].Sindicato
    /\ \A i \in 1..Len(summary.rows) :
          LET entry == summary.rows[i]
              records == UnionRecords(entry.Sindicato)
          IN /\ entry.Qtd_Funcionarios = Cardinality(records)
             /\ entry.Total_Dias = SumOver(records, "Dias")
             /\ entry.Valor_Total = SumOver(records, "TOTAL")
             /\ 2 * Abs(entry.Qtd_Funcionarios * entry.Valor_Medio_Por_Funcionario
                          - entry.Valor_Total) <= entry.Qtd_Funcionarios
    /\ \A i, j \in 1..Len(summary.rows) :
          i < j => summary.rows[i].Valor_Total >= summary.rows[j].Valor_Total

NothingConsolidated == ~final_result.set /\ ~processing_stats.set

\* C27: a method called before the one it depends on stops at its guard:
\* process_data before a successful load_data, create_consolidated_base
\* before process_data, generate_final_report and export_detailed_report
\* before a consolidated result raise ValueError; validate_data then returns
\* False and generate_summary_report None; final_result and processing_stats
\* stay unset in each case
C27_CallOrderGuards ==
    /\ (last_call = "process_data" /\ ~raw_data_set) =>
           (outcome = "ValueError" /\ ~processed_data_set /\ NothingConsolidated)
    /\ (last_call = "create_consolidated_base" /\ ~processed_data_set) =>
           (outcome = "ValueError" /\ NothingConsolidated)
    /\ (last_call \in {"generate_final_report", "export_detailed_report"}
           /\ ~final_result.set) =>
           /\ outcome = "ValueError"
           /\ NothingConsolidated
           /\ ~report.written
           /\ ~detailed_report.written
    /\ (last_call = "validate_data" /\ ~final_result.set) =>
           /\ outcome = "ok"
           /\ validation.called
           /\ ~validation.passed
           /\ NothingConsolidated
    /\ (last_call = "generate_summary_report" /\ ~final_result.set) =>
           /\ outcome = "ok"
           /\ summary.called
           /\ ~summary.returned
           /\ NothingConsolidated

\* export_detailed_report stopped at its guard on an instance that had
\* loaded and processed its data, after validate_data had returned False and
\* generate_summary_report None
C27_Witness ==
    /\ last_call = "export_detailed_report"
    /\ outcome = "ValueError"
    /\ raw_data_set
    /\ processed_data_set
    /\ validation.called
    /\ ~validation.passed
    /\ summary.called
    /\ ~summary.returned
    /\ NothingConsolidated

\* C26: run_complete_process runs load, normalize, consolidate, validate and
\* report in this order, each stage on what the stage before left; the
\* report is written only when the four earlier stages have completed, and
\* when a stage raises the run ends with that exception and writes no report
C26_StagesInOrder ==
    [][LET loaded == load_data(Self, files, folder_exists)
           processed == process_data(loaded.self)
           consolidated == create_consolidated_base(processed.self,
                               dt_accessor_infers, CompetenceMonth, CompetenceYear)
           validated == validate_data(consolidated.self)
           failed == IF loaded.outcome # "ok" THEN loaded
                     ELSE IF processed.outcome # "ok" THEN processed
                     ELSE IF consolidated.outcome # "ok" THEN consolidated
                     ELSE validated
       IN last_call' = "run_complete_process" =>
             IF failed.outcome # "ok"
             THEN /\ outcome' = failed.outcome
                  /\ report' = report
                  /\ final_result' = failed.self.final_result
             ELSE /\ outcome' = "ok"
                  /\ loaded_data' = processed.self.loaded_data
                  /\ processing_stats' = consolidated.self.processing_stats
                  /\ final_result'.rows \in
                        sort_values(consolidated.self.final_result.rows)
                  /\ validation' = validated.self.validation
                  /\ report' = [written |-> TRUE,
                                rows |-> final_result'.rows,
                                stats |-> processing_stats']]_vars

\* a run that went through the five stages: the tables were normalized, two
\* records were consolidated and validated, and the report holds them
C26_Witness ==
    /\ last_call = "run_complete_process"
    /\ outcome = "ok"
    /\ loaded_data["ativos"] # files["ativos"]
    /\ processing_stats.set
    /\ validation.called
    /\ validation.passed
    /\ report.written
    /\ Len(report.rows) = 2
    /\ report.rows = final_result.rows

\* the keys a workbook of the folder gives a rate table
KeysOf(name, column) ==
    {NormalizeText(files[name].rows[j][column]) : j \in 1..Len(files[name].rows)}

\* C25: nothing persists between runs: once an instance has loaded and
\* processed a folder, the consolidation that follows leaves source tables,
\* a working-days table and a rate table that hold only what this folder
\* supplies, whatever folders the instance was run on before
C25_NothingPersists ==
    [][(/\ last_call = "process_data"
        /\ outcome = "ok"
        /\ last_call' = "create_consolidated_base"
        /\ outcome' = "ok") =>
          /\ \A n \in SourceNames : loaded_data'[n].present => files[n].present
          /\ \A i \in 1..Len(business_days_mapping') :
                business_days_mapping'[i].k \in KeysOf("dias_uteis", "SINDICATO")
          /\ \A i \in 1..Len(daily_values_mapping') :
                daily_values_mapping'[i].k \in KeysOf("sindicato_valor", "ESTADO")]_vars

====
